---- MODULE Spec2Model ----
(***************************************************************************)
(* A model of p5py/opengl/renderer.py: the BaseRenderer interface, the     *)
(* OpenGLRenderer backend, its shape buffer cache (geoms) and the part of  *)
(* the OpenGL state machine the backend drives (buffer bindings, the       *)
(* vertex attribute pointer, the 'fill_color' uniform, the clear colour    *)
(* and the frame buffer).                                                  *)
(*                                                                         *)
(* The sketch driver calls initialize() at setup and render() only after   *)
(* it succeeded; the sketch attributes are owned by the sketch and change  *)
(* between renderer calls.                                                 *)
(***************************************************************************)
EXTENDS Integers, Sequences, FiniteSets, TLC

VARIABLES
    backend,        \* the class of the renderer object
    supported,      \* whether the GL context can build the "#version 130" shaders
    sketch_attrs,   \* sketch._attrs, owned by the sketch
    shader_program, \* self.shader_program
    geoms,          \* self.geoms: str(shape.__dict__) -> buffer entry
    gl,             \* the OpenGL context state the renderer touches
    gl_calls,       \* allocation, upload and draw commands issued by the latest call
    last            \* the latest event: the call made and how it ended

vars == <<backend, supported, sketch_attrs, shader_program, geoms, gl, gl_calls, last>>

\* Cap on the number of cache entries the model lets the renderer create.
MaxCached == 2

-----------------------------------------------------------------------------
(* Python values: numbers carry their type, because str() shows it.        *)

Int_(v) == [v |-> v, t |-> "int"]
Float_(v) == [v |-> v, t |-> "float"]

\* int + int is an int, anything with a float is a float
Add(a, b) == [v |-> a.v + b.v, t |-> IF a.t = "float" \/ b.t = "float" THEN "float" ELSE "int"]
Sub(a, b) == [v |-> a.v - b.v, t |-> IF a.t = "float" \/ b.t = "float" THEN "float" ELSE "int"]

Digit == <<"0", "1", "2", "3", "4", "5", "6", "7", "8", "9">>

RECURSIVE NatStr(_)
NatStr(n) == IF n < 10 THEN Digit[n + 1] ELSE NatStr(n \div 10) \o Digit[(n % 10) + 1]

\* str(int)
IntStr(n) == IF n < 0 THEN "-" \o NatStr(-n) ELSE NatStr(n)

\* str(number): a float of integral value prints with ".0"
NumStr(n) == IF n.t = "float" THEN IntStr(n.v) \o ".0" ELSE IntStr(n.v)

RECURSIVE Join(_)
Join(strs) ==
    IF Len(strs) = 0 THEN ""
    ELSE IF Len(strs) = 1 THEN strs[1]
    ELSE strs[1] \o ", " \o Join(Tail(strs))

\* str(tuple)
TupleStr(strs) == IF Len(strs) = 1 THEN "(" \o strs[1] \o ",)" ELSE "(" \o Join(strs) \o ")"

\* str(list)
ListStr(strs) == "[" \o Join(strs) \o "]"

VertexStr(vertex) == TupleStr([i \in 1..Len(vertex) |-> NumStr(vertex[i])])
FaceStr(face) == TupleStr([i \in 1..Len(face) |-> IntStr(face[i])])

\* str(shape.__dict__): the attributes in the order __init__ assigned them
ShapeStr(shape) ==
    "{'vertices': " \o ListStr([i \in 1..Len(shape.vertices) |-> VertexStr(shape.vertices[i])])
    \o ", 'faces': " \o ListStr([i \in 1..Len(shape.faces) |-> FaceStr(shape.faces[i])]) \o "}"

\* TestRect.__eq__: the __dict__s compare equal; Python compares numbers by value
ShapeEq(a, b) ==
    /\ Len(a.vertices) = Len(b.vertices)
    /\ \A i \in 1..Len(a.vertices) :
          /\ Len(a.vertices[i]) = Len(b.vertices[i])
          /\ \A j \in 1..Len(a.vertices[i]) : a.vertices[i][j].v = b.vertices[i][j].v
    /\ a.faces = b.faces

\* [x for row in rows for x in row]
RECURSIVE Flatten(_)
Flatten(rows) == IF Len(rows) = 0 THEN <<>> ELSE Head(rows) \o Flatten(Tail(rows))

-----------------------------------------------------------------------------
(* Shapes handed to render().                                              *)

\* test_render's TestRect
TestRect(x, y, w, h) ==
    [vertices |-> << <<x, y, Int_(0)>>,
                     <<Add(x, w), y, Int_(0)>>,
                     <<Add(x, w), Sub(y, h), Int_(0)>>,
                     <<x, Sub(y, h), Int_(0)>> >>,
     faces |-> << <<0, 1, 2>>, <<2, 3, 0>> >>]

\* a single triangle, and three vertices that no face joins
Triangle == [vertices |-> << <<Int_(0), Int_(0), Int_(0)>>,
                            <<Int_(1), Int_(0), Int_(0)>>,
                            <<Int_(0), Int_(1), Int_(0)>> >>,
             faces |-> << <<0, 1, 2>> >>]
Points == [vertices |-> Triangle.vertices, faces |-> <<>>]

\* the unit square, its corner given once as an int and once as a float
Shapes ==
    { TestRect(x, Int_(1), Int_(1), Int_(1)) : x \in {Int_(0), Float_(0)} }
        \cup {Triangle, Points}

\* Color objects: .normalized is the RGBA tuple handed to OpenGL.  The sketch
\* picks its fill and background colours among Colors and keeps one stroke colour.
Colors == { [normalized |-> <<1, 0, 0, 1>>], [normalized |-> <<0, 0, 1, 1>>] }
StrokeColors == { [normalized |-> <<0, 0, 1, 1>>] }

NoColor == <<>>

\* str(shape.__dict__) of every shape, computed once
str == [shape \in Shapes |-> ShapeStr(shape)]

-----------------------------------------------------------------------------
(* The OpenGL calls the renderer makes, as functions of the context state. *)

glBindBuffer(g, target, buffer) ==
    IF target = "GL_ARRAY_BUFFER" THEN [g EXCEPT !.array_buffer = buffer]
    ELSE [g EXCEPT !.element_array_buffer = buffer]

\* glEnableVertexAttribArray + glVertexAttribPointer: the attribute reads from
\* the buffer bound to GL_ARRAY_BUFFER at the time of the call
glVertexAttribPointer(g) == [g EXCEPT !.attrib_buffer = g.array_buffer]

\* glGenBuffers(1, ...): the next unused buffer name
glGenBuffers(g) == [g EXCEPT !.gen_buffers = g.gen_buffers + 1]

\* the command glDrawElements(mode, count, GL_UNSIGNED_INT, 0) with what it reads
DrawCommand(g, mode, count) ==
    [cmd |-> "glDrawElements", mode |-> mode, count |-> count,
     vertex_buffer |-> g.attrib_buffer, index_buffer |-> g.element_array_buffer,
     fill_color |-> g.fill_color]

\* a draw of no elements leaves the frame buffer alone
glDrawElements(g, count) ==
    IF count = 0 THEN g
    ELSE [g EXCEPT !.frame_buffer = [color |-> g.frame_buffer.color, depth_clear |-> FALSE,
                                     drawn |-> TRUE]]

\* (GLfloat * n)(*vertices)
GLfloatArray(values) == [i \in 1..Len(values) |-> Float_(values[i].v)]

SizeofGLfloat == 4
SizeofGLuint == 4

-----------------------------------------------------------------------------
(* ShaderProgram (p5py/opengl/shader.py).                                  *)

NewShaderProgram == [shaders |-> {}, linked |-> FALSE, active |-> FALSE, uniforms |-> {}]

\* compile and attach both shaders, link, activate, add_uniform('fill_color')
BuiltShaderProgram ==
    [shaders |-> {"vertex", "fragment"}, linked |-> TRUE, active |-> TRUE,
     uniforms |-> {"fill_color"}]

\* set_uniform_data('fill_color', *values) through glUniform4f
set_uniform_data(g, values) == [g EXCEPT !.fill_color = values]

-----------------------------------------------------------------------------
(* BaseRenderer: what each method does when a backend does not override it *)

BaseRenderer_clear_pass == "None"

BaseRenderer_initialize == "NotImplementedError"
BaseRenderer_check_support == "NotImplementedError"
BaseRenderer_pre_render == "None"
BaseRenderer_render == "NotImplementedError"
BaseRenderer_post_render == "None"
BaseRenderer_clear == "NotImplementedError"
BaseRenderer_cleanup == "None"

\* the methods a backend class defines itself; "Backend" is a subclass that
\* defines its constructor and nothing else
Overrides(cls) ==
    IF cls = "OpenGLRenderer" THEN {"__init__", "initialize", "render", "clear", "test_render"}
    ELSE {"__init__"}

Backends == {"OpenGLRenderer", "Backend"}

-----------------------------------------------------------------------------
(* OpenGLRenderer.  self is [geoms, gl, gl_calls].                         *)

NumElements_faces(shape) == Len(shape.faces)

NumElements_vertices(shape) == Len(Flatten(shape.vertices))

\* len(elements), elements = [idx for face in shape.faces for idx in face]
NumElements(shape) == Len(Flatten(shape.faces))

\* the buffers are made anew although the shape is cached
_create_buffers_always(self, shape) ==
    LET g1 == glGenBuffers(self.gl)
        g2 == glGenBuffers(g1)
        g3 == glVertexAttribPointer(
                  glBindBuffer(glBindBuffer(g2, "GL_ARRAY_BUFFER", g1.gen_buffers),
                               "GL_ELEMENT_ARRAY_BUFFER", g2.gen_buffers))
        entry == [vertex_buffer |-> g1.gen_buffers, index_buffer |-> g2.gen_buffers,
                  num_elements |-> NumElements(shape)]
    IN  [self |->
            [geoms |-> [k \in DOMAIN self.geoms \cup {str[shape]} |->
                           IF k = str[shape] THEN entry ELSE self.geoms[k]],
             gl |-> g3,
             gl_calls |-> self.gl_calls \o
                 << [cmd |-> "glGenBuffers", buffer |-> g1.gen_buffers],
                    [cmd |-> "glGenBuffers", buffer |-> g2.gen_buffers] >>],
         shape_hash |-> str[shape]]

_create_buffers(self, shape) ==
    LET shape_hash == str[shape] IN
    IF shape_hash \in DOMAIN self.geoms THEN [self |-> self, shape_hash |-> shape_hash]
    ELSE
    LET g1 == glGenBuffers(self.gl)
        vertex_buffer == g1.gen_buffers
        g2 == glGenBuffers(g1)
        index_buffer == g2.gen_buffers
        g3 == glBindBuffer(g2, "GL_ARRAY_BUFFER", vertex_buffer)
        vertices == Flatten(shape.vertices)
        vertices_typed == GLfloatArray(vertices)
        elements == Flatten(shape.faces)
        g4 == glBindBuffer(g3, "GL_ELEMENT_ARRAY_BUFFER", index_buffer)
        g5 == glVertexAttribPointer(g4)
        entry == [vertex_buffer |-> vertex_buffer, index_buffer |-> index_buffer,
                  num_elements |-> NumElements(shape)]
    IN  [self |->
            [geoms |-> [k \in DOMAIN self.geoms \cup {shape_hash} |->
                           IF k = shape_hash THEN entry ELSE self.geoms[k]],
             gl |-> g5,
             gl_calls |-> self.gl_calls \o
                 << [cmd |-> "glGenBuffers", buffer |-> vertex_buffer],
                    [cmd |-> "glGenBuffers", buffer |-> index_buffer],
                    [cmd |-> "glBufferData", target |-> "GL_ARRAY_BUFFER",
                     buffer |-> g3.array_buffer,
                     size |-> SizeofGLfloat * Len(vertices_typed), data |-> vertices_typed],
                    [cmd |-> "glBufferData", target |-> "GL_ELEMENT_ARRAY_BUFFER",
                     buffer |-> g4.element_array_buffer,
                     size |-> SizeofGLuint * Len(elements), data |-> elements] >>],
         shape_hash |-> shape_hash]

\* the triangles are drawn with whatever the uniform holds
DrawFill_stale_uniform(self, shape_hash, attrs) ==
    IF ~attrs.fill_enabled THEN self
    ELSE
    LET entry == self.geoms[shape_hash]
        g2 == glBindBuffer(self.gl, "GL_ELEMENT_ARRAY_BUFFER", entry.index_buffer)
    IN  [self EXCEPT !.gl = glDrawElements(g2, entry.num_elements),
                     !.gl_calls = @ \o <<DrawCommand(g2, "GL_TRIANGLES", entry.num_elements)>>]

\* the fill branch of _draw_buffers
DrawFill(self, shape_hash, attrs) ==
    IF ~attrs.fill_enabled THEN self
    ELSE
    LET entry == self.geoms[shape_hash]
        g1 == set_uniform_data(self.gl, attrs.fill_color.normalized)
        g2 == glBindBuffer(g1, "GL_ELEMENT_ARRAY_BUFFER", entry.index_buffer)
    IN  [self EXCEPT !.gl = glDrawElements(g2, entry.num_elements),
                     !.gl_calls = @ \o <<DrawCommand(g2, "GL_TRIANGLES", entry.num_elements)>>]

\* the outline is drawn whatever stroke_enabled says
DrawStroke_unconditional(self, shape_hash, attrs) ==
    LET entry == self.geoms[shape_hash]
        g1 == set_uniform_data(self.gl, attrs.stroke_color.normalized)
    IN  [self EXCEPT !.gl = glDrawElements(g1, entry.num_elements),
                     !.gl_calls = @ \o <<DrawCommand(g1, "GL_LINE_LOOP", entry.num_elements)>>]

\* the stroke branch of _draw_buffers
DrawStroke(self, shape_hash, attrs) ==
    IF ~attrs.stroke_enabled THEN self
    ELSE
    LET entry == self.geoms[shape_hash]
        g1 == set_uniform_data(self.gl, attrs.stroke_color.normalized)
    IN  [self EXCEPT !.gl = glDrawElements(g1, entry.num_elements),
                     !.gl_calls = @ \o <<DrawCommand(g1, "GL_LINE_LOOP", entry.num_elements)>>]

_draw_buffers(self, shape_hash, attrs) ==
    LET g1 == glBindBuffer(self.gl, "GL_ARRAY_BUFFER", self.geoms[shape_hash].vertex_buffer)
        g2 == glVertexAttribPointer(g1)
    IN  DrawStroke(DrawFill([self EXCEPT !.gl = g2], shape_hash, attrs), shape_hash, attrs)

OpenGLRenderer_render(self, shape, attrs) ==
    LET created == _create_buffers(self, shape)
    IN  _draw_buffers(created.self, created.shape_hash, attrs)

\* the screen is cleared to the fill colour
OpenGLRenderer_clear_fill_color(g, attrs) ==
    [g EXCEPT !.clear_color = attrs.fill_color.normalized,
              !.frame_buffer = [color |-> attrs.fill_color.normalized, depth_clear |-> TRUE,
                                drawn |-> FALSE]]

\* glClearColor(*background_color.normalized); glClear(color | depth)
OpenGLRenderer_clear(g, attrs) ==
    LET g1 == [g EXCEPT !.clear_color = attrs.background_color.normalized]
    IN  [g1 EXCEPT !.frame_buffer = [color |-> g1.clear_color, depth_clear |-> TRUE,
                                     drawn |-> FALSE]]

\* glEnable(GL_DEPTH_TEST); glDepthFunc(GL_LEQUAL); glViewport(0, 0, width, height)
OpenGLRenderer_initialize_gl(g, attrs) ==
    [g EXCEPT !.depth_test = TRUE, !.depth_func = "GL_LEQUAL",
              !.viewport = <<0, 0, attrs.width, attrs.height>>]

-----------------------------------------------------------------------------
(* The state machine.                                                      *)

Event(op, args, result) == [op |-> op, args |-> args, result |-> result]

Init ==
    /\ backend \in Backends
    /\ supported \in BOOLEAN
    /\ sketch_attrs \in [width : {4}, height : {3},
                         fill_enabled : BOOLEAN, stroke_enabled : BOOLEAN,
                         fill_color : Colors, stroke_color : StrokeColors,
                         background_color : Colors]
    /\ shader_program = NewShaderProgram
    /\ geoms = [k \in {} |-> 0]
    /\ gl = [depth_test |-> FALSE, depth_func |-> "GL_LESS", viewport |-> <<0, 0, 0, 0>>,
             array_buffer |-> 0, element_array_buffer |-> 0, attrib_buffer |-> 0,
             gen_buffers |-> 0, fill_color |-> NoColor, clear_color |-> <<0, 0, 0, 0>>,
             frame_buffer |-> [color |-> NoColor, depth_clear |-> FALSE, drawn |-> FALSE]]
    /\ gl_calls = <<>>
    /\ last = Event("__init__", <<>>, "None")

\* a call that ends without touching the renderer or the context
Returns(op, result) ==
    /\ last' = Event(op, <<>>, result)
    /\ gl_calls' = <<>>
    /\ UNCHANGED <<backend, supported, sketch_attrs, shader_program, geoms, gl>>

Initialize ==
    IF "initialize" \notin Overrides(backend) THEN Returns("initialize", BaseRenderer_initialize)
    ELSE
    /\ gl' = LET g1 == OpenGLRenderer_initialize_gl(gl, sketch_attrs)
             IN  IF supported THEN [g1 EXCEPT !.fill_color = <<0, 0, 0, 0>>] ELSE g1
    /\ shader_program' = IF supported THEN BuiltShaderProgram ELSE shader_program
    /\ last' = Event("initialize", <<>>, IF supported THEN "None" ELSE "ShaderError")
    /\ gl_calls' = <<>>
    /\ UNCHANGED <<backend, supported, sketch_attrs, geoms>>

PreRender == Returns("pre_render", BaseRenderer_pre_render)

PostRender == Returns("post_render", BaseRenderer_post_render)

Cleanup == Returns("cleanup", BaseRenderer_cleanup)

Render(shape) ==
    IF "render" \notin Overrides(backend)
    THEN /\ last' = Event("render", <<shape>>, BaseRenderer_render)
         /\ gl_calls' = <<>>
         /\ UNCHANGED <<backend, supported, sketch_attrs, shader_program, geoms, gl>>
    ELSE
    /\ shader_program.active
    /\ "fill_color" \in shader_program.uniforms
    /\ str[shape] \in DOMAIN geoms \/ Cardinality(DOMAIN geoms) < MaxCached
    /\ LET done == OpenGLRenderer_render([geoms |-> geoms, gl |-> gl, gl_calls |-> <<>>],
                                         shape, sketch_attrs)
       IN  /\ geoms' = done.geoms
           /\ gl' = done.gl
           /\ gl_calls' = done.gl_calls
    /\ last' = Event("render", <<shape>>, "None")
    /\ UNCHANGED <<backend, supported, sketch_attrs, shader_program>>

Clear ==
    IF "clear" \notin Overrides(backend) THEN Returns("clear", BaseRenderer_clear)
    ELSE
    /\ gl' = OpenGLRenderer_clear(gl, sketch_attrs)
    /\ last' = Event("clear", <<>>, "None")
    /\ gl_calls' = <<>>
    /\ UNCHANGED <<backend, supported, sketch_attrs, shader_program, geoms>>

\* the sketch changes one of its attributes between renderer calls
SketchUpdate ==
    /\ \/ \E b \in BOOLEAN : sketch_attrs' = [sketch_attrs EXCEPT !.fill_enabled = b]
       \/ \E b \in BOOLEAN : sketch_attrs' = [sketch_attrs EXCEPT !.stroke_enabled = b]
       \/ \E c \in Colors : sketch_attrs' = [sketch_attrs EXCEPT !.fill_color = c]
       \/ \E c \in Colors : sketch_attrs' = [sketch_attrs EXCEPT !.background_color = c]
    /\ sketch_attrs' # sketch_attrs
    /\ last' = Event("sketch", <<>>, "None")
    /\ gl_calls' = <<>>
    /\ UNCHANGED <<backend, supported, shader_program, geoms, gl>>

Next ==
    \/ Initialize
    \/ PreRender
    \/ \E shape \in Shapes : Render(shape)
    \/ PostRender
    \/ Clear
    \/ Cleanup
    \/ SketchUpdate

Spec == Init /\ [][Next]_vars

-----------------------------------------------------------------------------
(* Properties.  A state whose last.op is "render" is the state right after *)
(* that render call: sketch_attrs are the attributes the call read and     *)
(* gl_calls the commands it issued.                                        *)

IsOpenGL == backend = "OpenGLRenderer"

AfterRender == IsOpenGL /\ last.op = "render"

\* the shape handed to the latest render call
Rendered == last.args[1]

IsDraw(c) == c.cmd = "glDrawElements"
IsAllocation(c) == c.cmd \in {"glGenBuffers", "glBufferData"}

Draws == SelectSeq(gl_calls, IsDraw)
Allocations == SelectSeq(gl_calls, IsAllocation)

\* C1: a render of a shape equal by value to a shape rendered before leaves
\* the size of geoms as it was and allocates no buffer.
C1_ReuseByValue ==
    [][\A shape \in Shapes :
          (/\ IsOpenGL
           /\ last'.op = "render"
           /\ last'.args = <<shape>>
           /\ \E r \in Shapes : str[r] \in DOMAIN geoms /\ ShapeEq(shape, r))
          => /\ Cardinality(DOMAIN geoms') = Cardinality(DOMAIN geoms)
             /\ SelectSeq(gl_calls', IsAllocation) = <<>>]_vars

\* C2: with fill and stroke both disabled a render issues no draw call.
C2_NoDrawWhenDisabled ==
    (AfterRender /\ ~sketch_attrs.fill_enabled /\ ~sketch_attrs.stroke_enabled)
        => Draws = <<>>

C2_Witness ==
    /\ AfterRender /\ ~sketch_attrs.fill_enabled /\ ~sketch_attrs.stroke_enabled
    /\ Allocations # <<>>
    /\ Cardinality(DOMAIN geoms) = 2

\* C3: with fill enabled and stroke disabled a render of a shape of n faces
\* issues one GL_TRIANGLES draw of 3*n elements and no GL_LINE_LOOP draw, on
\* a cache miss and on a cache hit alike.
C3_OneTriangleDraw ==
    (AfterRender /\ sketch_attrs.fill_enabled /\ ~sketch_attrs.stroke_enabled)
        => /\ Len(Draws) = 1
           /\ Draws[1].mode = "GL_TRIANGLES"
           /\ Draws[1].count = 3 * Len(Rendered.faces)

C3_Witness ==
    /\ AfterRender /\ sketch_attrs.fill_enabled /\ ~sketch_attrs.stroke_enabled
    /\ Len(Rendered.vertices) = 4 /\ Len(Rendered.faces) = 2
    /\ Allocations = <<>>
    /\ Len(Draws) = 1 /\ Draws[1].count = 6

\* C4: a render of a shape without faces ends without an error, its cache
\* entry has num_elements 0 and every draw it issues has element count 0.
C4_EmptyFaces ==
    (AfterRender /\ Rendered.faces = <<>>)
        => /\ last.result = "None"
           /\ str[Rendered] \in DOMAIN geoms
           /\ geoms[str[Rendered]].num_elements = 0
           /\ \A i \in 1..Len(Draws) : Draws[i].count = 0

C4_Witness ==
    /\ AfterRender /\ Rendered.faces = <<>> /\ Rendered.vertices # <<>>
    /\ sketch_attrs.fill_enabled /\ sketch_attrs.stroke_enabled
    /\ Len(Draws) = 2

\* C5: clear() sets the clear colour from the background colour it reads and
\* leaves the frame buffer cleared to it, and only clear() or a render with
\* fill or stroke enabled changes the frame buffer.
C5_ClearToBackground ==
    [][/\ (IsOpenGL /\ last'.op = "clear")
            => /\ gl'.clear_color = sketch_attrs.background_color.normalized
               /\ gl'.frame_buffer = [color |-> sketch_attrs.background_color.normalized,
                                      depth_clear |-> TRUE, drawn |-> FALSE]
       /\ gl'.frame_buffer # gl.frame_buffer
            => \/ last'.op = "clear"
               \/ /\ last'.op = "render"
                  /\ sketch_attrs.fill_enabled \/ sketch_attrs.stroke_enabled]_vars

\* the sketch changed its background after the clear; the frame still holds
\* the colour clear() read
C5_Witness ==
    /\ IsOpenGL /\ last.op = "post_render"
    /\ gl.gen_buffers > 0
    /\ gl.frame_buffer.color # NoColor /\ ~gl.frame_buffer.drawn
    /\ gl.frame_buffer.color # sketch_attrs.background_color.normalized

Silent == {"pre_render", "post_render", "cleanup"}
Abstract == {"initialize", "render", "clear"}

\* C6 as stated: on a backend that overrides nothing, initialize, render,
\* clear and cleanup raise NotImplementedError.
C6_AllButHooksRaise ==
    (~IsOpenGL /\ last.op \in Abstract \cup {"cleanup"})
        => last.result = "NotImplementedError"

\* C6 as amended: on a backend that overrides nothing, initialize, render and
\* clear raise NotImplementedError; pre_render, post_render and cleanup return.
C6_AbstractRaiseHooksReturn ==
    ~IsOpenGL =>
        /\ last.op \in Abstract => last.result = "NotImplementedError"
        /\ last.op \in Silent => last.result = "None"

C6_Witness == ~IsOpenGL /\ last.op = "cleanup" /\ last.result = "None"

\* C7: on an unsupported target initialize() raises before it changes any GL
\* state or builds the shader program.
C7_UnsupportedChangesNothing ==
    (IsOpenGL /\ ~supported /\ last.op = "initialize")
        => /\ last.result # "None"
           /\ ~gl.depth_test
           /\ gl.depth_func = "GL_LESS"
           /\ gl.viewport = <<0, 0, 0, 0>>
           /\ shader_program = NewShaderProgram

\* C8: every draw of a render is issued with the vertex buffer and the index
\* buffer of the shape rendered (stated for the draws that read an element).
C8_OwnBuffers ==
    AfterRender =>
        \A i \in 1..Len(Draws) :
            Draws[i].count > 0 =>
            /\ Draws[i].vertex_buffer = geoms[str[Rendered]].vertex_buffer
            /\ Draws[i].index_buffer = geoms[str[Rendered]].index_buffer

\* C9: geoms only grows, an entry never changes, a call adds at most one
\* entry and only render adds any.
C9_GrowOnly ==
    [][/\ \A k \in DOMAIN geoms : k \in DOMAIN geoms' /\ geoms'[k] = geoms[k]
       /\ Cardinality(DOMAIN geoms' \ DOMAIN geoms) <= 1
       /\ DOMAIN geoms' # DOMAIN geoms => last'.op = "render"]_vars

C9_Witness ==
    /\ IsOpenGL /\ last.op = "render"
    /\ Cardinality(DOMAIN geoms) = 2
    /\ Allocations = <<>>
    /\ geoms[str[Rendered]].vertex_buffer = 1

\* C10: with fill and stroke enabled the triangles are drawn first, with the
\* fill colour in the uniform, then the line loop with the stroke colour; a
\* render with stroke enabled leaves the stroke colour in the uniform, and a
\* render with fill enabled draws its triangles with the fill colour whatever
\* the uniform held before.
C10_UniformPerDraw ==
    AfterRender =>
        /\ (sketch_attrs.fill_enabled /\ sketch_attrs.stroke_enabled)
              => /\ Len(Draws) = 2
                 /\ Draws[1].mode = "GL_TRIANGLES"
                 /\ Draws[1].fill_color = sketch_attrs.fill_color.normalized
                 /\ Draws[2].mode = "GL_LINE_LOOP"
                 /\ Draws[2].fill_color = sketch_attrs.stroke_color.normalized
        /\ sketch_attrs.stroke_enabled
              => gl.fill_color = sketch_attrs.stroke_color.normalized
        /\ sketch_attrs.fill_enabled
              => /\ Draws[1].mode = "GL_TRIANGLES"
                 /\ Draws[1].fill_color = sketch_attrs.fill_color.normalized

C10_Witness ==
    /\ AfterRender /\ sketch_attrs.fill_enabled /\ sketch_attrs.stroke_enabled
    /\ sketch_attrs.fill_color.normalized # sketch_attrs.stroke_color.normalized
    /\ Len(Draws) = 2
    /\ Draws[1].fill_color # gl.fill_color

====
